---- MODULE Spec2Model ----
(***************************************************************************)
(* Model of pipeline/train/instruction_following.py (Otter instruction     *)
(* tuning): the run of main() on every worker of a data-parallel group     *)
(* (start-up, resume, epoch loop, per-epoch checkpoint, final save), the   *)
(* save directory that outlives a run, and the label masking that          *)
(* train_one_epoch applies to every token row.                             *)
(***************************************************************************)
EXTENDS Integers, Naturals, Sequences, FiniteSets, TLC

(***************************************************************************)
(* Bounds of the model.                                                    *)
(***************************************************************************)
NumWorkers == 2      \* processes of the group (args.world_size)
MaxEpochs  == 2      \* largest args.num_epochs
MaxBatches == 2      \* largest len(mimicit_loaders[0])
MaxRuns    == 2      \* launches of the program on the same save directory

Workers == 0 .. (NumWorkers - 1)
Epochs  == 0 .. (MaxEpochs - 1)

\* A local name of main() that no assignment has bound yet.
Unbound == -1

\* args.rank of a worker; rank 0 is the coordinating worker.
Rank(w) == w

(***************************************************************************)
(* The run configuration produced by parse_args.                           *)
(***************************************************************************)
Args ==
  [ num_epochs                 : 1 .. MaxEpochs,
    num_batches                : 1 .. MaxBatches,
    resume_from_checkpoint     : BOOLEAN,
    delete_previous_checkpoint : BOOLEAN,
    report_to_wandb            : BOOLEAN,
    save_checkpoints_to_wandb  : BOOLEAN ]

(***************************************************************************)
(* Contents of one file of the save directory.  kind is "none" when the    *)
(* file does not exist, "torn" when a failed write left a partial file,    *)
(* "ckpt" for a complete checkpoint_<epoch>.pt.                            *)
(***************************************************************************)
NoFile   == [kind |-> "none", epoch |-> 0, model |-> 0, opt |-> 0, sched |-> 0]
TornFile == [kind |-> "torn", epoch |-> 0, model |-> 0, opt |-> 0, sched |-> 0]

VARIABLES
  args,          \* parsed command line of the current run
  run,           \* number of the current launch, 1 .. MaxRuns
  dirExists,     \* os.path.exists(args.external_save_dir)
  files,         \* files[e] is checkpoint_<e>.pt of the save directory
  finalFile,     \* final_weights.pt: Unbound when absent, else the model saved
  pc,            \* pc[w]: position of worker w in main()
  err,           \* err[w]: the exception that ended worker w, "none" if none
  epoch,         \* epoch[w]: loop variable of the epoch loop
  step,          \* step[w]: batches of the current epoch already trained on
  model,         \* model[w]: version of the model weights (Unbound before loading)
  opt,           \* opt[w]: optimizer state as its step count (Unbound before line 568)
  sched,         \* sched[w]: scheduler state as its step count (Unbound before line 581)
  gen,           \* gen[w]: number of accelerator.wait_for_everyone() calls entered
  checkpoint_list,              \* checkpoint_list[w]: epochs found by glob, line 553
  resume_from_checkpoint_path,  \* [w]: epoch of the chosen file, line 557
  resume_from_epoch,            \* [w]: first epoch of the epoch loop
  startFiles,    \* epochs with a file in the save directory at the launch
  oplog,         \* file operations of the current run, in order
  input_ids,     \* one row of batch_mimicit["net_input"]["input_ids"]
  labels,        \* the row labels[i] built from it, lines 79-114
  endofchunk_idxs,  \* positions found at line 94
  mpc,           \* position of the label masking of the row
  relabels,      \* the label row of a second masking, applied to labels
  lens,          \* lens[s]: len() of data stream s of mimicit_loaders
  taken,         \* taken[s]: batches already drawn from stream s in this epoch
  batch_mimicits,   \* the batches (by number) zip yielded for the current step
  num_steps,     \* steps of the epoch completed
  cur,           \* the stream the loop of line 74 is at
  sync_gradients,   \* accelerator.sync_gradients during the current step
  reporting,     \* args.rank == 0 and args.report_to_wandb
  trace,         \* calls made in the current step, in order
  tpc,           \* position in train_one_epoch
  loss_mimicit,  \* loss returned by the last forward pass, line 116
  total_losses,  \* list of the losses of the streams of the current step, line 73
  mean_loss,     \* line 131: a number n/d, not given before the first step
  total_training_steps,   \* len(mimicit_loaders[0]) * args.num_epochs, line 547
  warmup_steps_ratio,     \* args.warmup_steps_ratio: a fraction n/d, or not given
  warmup_steps,           \* args.warmup_steps: a number n/d (an int has d = 1)
  gradient_accumulation_steps,   \* args.gradient_accumulation_steps
  distributed_type,       \* accelerator.distributed_type
  num_processes,          \* accelerator.num_processes
  num_warmup_steps,       \* line 575
  num_training_steps,     \* line 576
  spc,                    \* position in lines 573-579
  listing,       \* the epoch suffixes of the checkpoint files of the save directory
  found,         \* checkpoint_list of line 553, as a set of paths
  latest,        \* resume_from_checkpoint_path of line 557, << >> while unbound
  dpc,           \* position in lines 553-558
  mask_lm_head,  \* args.mask_lm_head
  lang_encoder,  \* unwrapped_model.lang_encoder.__class__.__name__
  wte,           \* the embedding table: requires_grad and weight.grad by token row
  lm_head,       \* the output layer of a LlamaForCausalLM, likewise
  backward_wte,  \* the embedding table as the backward passes of the step left it
  applied,       \* the embedding gradient optimizer.step() used
  gpc            \* position in lines 123-155

mainVars == << args, run, dirExists, files, finalFile, pc, err, epoch, step, model,
               opt, sched, gen, checkpoint_list, resume_from_checkpoint_path,
               resume_from_epoch, startFiles, oplog >>

maskVars == << input_ids, labels, endofchunk_idxs, mpc, relabels >>

stepVars == << lens, taken, batch_mimicits, num_steps, cur, sync_gradients,
               reporting, trace, tpc,
              loss_mimicit, total_losses, mean_loss >>

schedVars == << total_training_steps, warmup_steps_ratio, warmup_steps,
                gradient_accumulation_steps, distributed_type, num_processes,
                num_warmup_steps, num_training_steps, spc >>

discoverVars == << listing, found, latest, dpc >>

gradVars == << mask_lm_head, lang_encoder, wte, lm_head, backward_wte, applied, gpc >>

vars == << mainVars, maskVars, stepVars, schedVars, discoverVars, gradVars >>

diskVars == << dirExists, files, finalFile >>
histVars == << startFiles >>
resumeVars == << checkpoint_list, resume_from_checkpoint_path, resume_from_epoch >>

\* glob.glob(f"{args.external_save_dir}/checkpoint_*.pt")
Glob == { e \in Epochs : files[e].kind # "none" }

\* sorted(checkpoint_list, key=lambda x: int(...))[-1]: the largest suffix
LatestCheckpoint(list) == CHOOSE e \in list : \A f \in list : f <= e

\* Every worker holds the same value of a variable when the program is launched.
Fresh(v) == [w \in Workers |-> v]

\* No row is being masked.
MaskIdle ==
  /\ input_ids = << >>
  /\ labels = << >>
  /\ endofchunk_idxs = {}
  /\ mpc = "idle"
  /\ relabels = << >>

\* The state of the save directory and of every worker at the first launch.
MainInit ==
  /\ args \in Args
  /\ run = 1
  /\ dirExists \in BOOLEAN
  /\ files = [e \in Epochs |-> NoFile]
  /\ finalFile = Unbound
  /\ startFiles = {}
  /\ pc = Fresh("parse_args")
  /\ err = Fresh("none")
  /\ epoch = Fresh(0)
  /\ step = Fresh(0)
  /\ model = Fresh(Unbound)
  /\ opt = Fresh(Unbound)
  /\ sched = Fresh(Unbound)
  /\ gen = Fresh(0)
  /\ checkpoint_list = Fresh({})
  /\ resume_from_checkpoint_path = Fresh(Unbound)
  /\ resume_from_epoch = Fresh(0)
  /\ oplog = << >>

\* train_one_epoch is not being followed step by step.
StepIdle ==
  /\ lens = << >>
  /\ taken = << >>
  /\ batch_mimicits = << >>
  /\ num_steps = 0
  /\ cur = 0
  /\ sync_gradients = TRUE
  /\ reporting = FALSE
  /\ trace = << >>
  /\ tpc = "idle"
  /\ loss_mimicit = 0
  /\ total_losses = << >>
  /\ mean_loss = [given |-> FALSE, n |-> 0, d |-> 1]

\* A number n/d; args.warmup_steps_ratio is None when given is FALSE.
Fraction(n, d) == [given |-> TRUE, n |-> n, d |-> d]
NotGiven == [given |-> FALSE, n |-> 0, d |-> 1]

\* The schedule is not being configured.
SchedIdle ==
  /\ total_training_steps = 0
  /\ warmup_steps_ratio = NotGiven
  /\ warmup_steps = Fraction(0, 1)
  /\ gradient_accumulation_steps = 1
  /\ distributed_type = "NO"
  /\ num_processes = 1
  /\ num_warmup_steps = Unbound
  /\ num_training_steps = Unbound
  /\ spc = "idle"

\* No directory is being searched.
DiscoverIdle ==
  /\ listing = {}
  /\ found = {}
  /\ latest = << >>
  /\ dpc = "idle"

\* A module whose weight has no gradient: weight.grad is None.
NoGrad == [requires_grad |-> FALSE, grad |-> << >>]

\* No gradient is being followed.
GradIdle ==
  /\ mask_lm_head = FALSE
  /\ lang_encoder = "none"
  /\ wte = NoGrad
  /\ lm_head = NoGrad
  /\ backward_wte = NoGrad
  /\ applied = << >>
  /\ gpc = "idle"

Init == MainInit /\ MaskIdle /\ StepIdle /\ SchedIdle /\ DiscoverIdle /\ GradIdle

\* The worker raises an exception and main() ends.
Raise(w, e) ==
  /\ pc' = [pc EXCEPT ![w] = "error"]
  /\ err' = [err EXCEPT ![w] = e]

Goto(w, l) ==
  /\ pc' = [pc EXCEPT ![w] = l]
  /\ UNCHANGED err

\* The worker calls accelerator.wait_for_everyone() and blocks at label l.
EnterBarrier(w, l) ==
  /\ Goto(w, l)
  /\ gen' = [gen EXCEPT ![w] = @ + 1]

\* parse_args without the checks of lines 445 and 454.
ParseArgsNoCheck(w) ==
  /\ pc[w] = "parse_args"
  /\ Goto(w, "load_model")
  /\ UNCHANGED << maskVars, stepVars, schedVars, discoverVars, gradVars, args, run, diskVars, histVars, epoch, step, model, opt, sched,
                  gen, resumeVars, oplog >>

(***************************************************************************)
(* parse_args, lines 443-466: the consistency check of the two tracker     *)
(* flags.                                                                  *)
(***************************************************************************)
ParseArgs(w) ==
  /\ pc[w] = "parse_args"
  /\ IF args.save_checkpoints_to_wandb /\ ~args.report_to_wandb
       THEN Raise(w, "ValueError")
       ELSE Goto(w, "load_model")
  /\ UNCHANGED << maskVars, stepVars, schedVars, discoverVars, gradVars, args, run, diskVars, histVars, epoch, step, model, opt, sched,
                  gen, resumeVars, oplog >>

(***************************************************************************)
(* main, lines 471-510: the pretrained model is loaded, then the first     *)
(* wait_for_everyone.                                                      *)
(***************************************************************************)
LoadModel(w) ==
  /\ pc[w] = "load_model"
  /\ model' = [model EXCEPT ![w] = 0]
  /\ EnterBarrier(w, "wait_510")
  /\ UNCHANGED << maskVars, stepVars, schedVars, discoverVars, gradVars, args, run, diskVars, histVars, epoch, step, opt, sched,
                  resumeVars, oplog >>

(***************************************************************************)
(* main, lines 549-566: discovery and load of the latest checkpoint.  The  *)
(* statements after the if/else of line 554 run whenever the directory     *)
(* exists and resume is requested.  optimizer and lr_scheduler are locals  *)
(* of main bound at lines 568 and 581-594: reading them earlier raises     *)
(* UnboundLocalError, and so does reading resume_from_checkpoint_path      *)
(* when the list was empty.                                                *)
(***************************************************************************)
ResumeFromCheckpoint(w) ==
  /\ pc[w] = "resume"
  /\ IF dirExists /\ args.resume_from_checkpoint
       THEN LET list == Glob
                path == IF list = {} THEN Unbound ELSE LatestCheckpoint(list)
            IN  /\ checkpoint_list' = [checkpoint_list EXCEPT ![w] = list]
                /\ resume_from_checkpoint_path' =
                      [resume_from_checkpoint_path EXCEPT ![w] = path]
                /\ IF path = Unbound
                     THEN \* line 561 (rank 0) or 562 reads the unbound path
                          /\ Raise(w, "UnboundLocalError")
                          /\ UNCHANGED << model, opt, sched, resume_from_epoch >>
                     ELSE IF files[path].kind = "torn"
                     THEN \* torch.load fails on a partial file
                          /\ Raise(w, "LoadError")
                          /\ UNCHANGED << model, opt, sched, resume_from_epoch >>
                     ELSE /\ model' = [model EXCEPT ![w] = files[path].model]
                          /\ IF opt[w] = Unbound
                               THEN \* line 564
                                    /\ Raise(w, "UnboundLocalError")
                                    /\ UNCHANGED << opt, sched, resume_from_epoch >>
                               ELSE /\ opt' = [opt EXCEPT ![w] = files[path].opt]
                                    /\ IF sched[w] = Unbound
                                         THEN \* line 565
                                              /\ Raise(w, "UnboundLocalError")
                                              /\ UNCHANGED << sched, resume_from_epoch >>
                                         ELSE /\ sched' = [sched EXCEPT ![w] = files[path].sched]
                                              /\ resume_from_epoch' =
                                                   [resume_from_epoch EXCEPT
                                                      ![w] = files[path].epoch + 1]
                                              /\ Goto(w, "setup")
       ELSE /\ Goto(w, "setup")
            /\ UNCHANGED << model, opt, sched, resumeVars >>
  /\ UNCHANGED << maskVars, stepVars, schedVars, discoverVars, gradVars, args, run, diskVars, histVars, epoch, step, gen, oplog >>

(***************************************************************************)
(* main, lines 568-605: a new optimizer and a new scheduler are built,     *)
(* then accelerator.prepare; the epoch loop starts at resume_from_epoch.   *)
(***************************************************************************)
Setup(w) ==
  /\ pc[w] = "setup"
  /\ opt' = [opt EXCEPT ![w] = 0]
  /\ sched' = [sched EXCEPT ![w] = 0]
  /\ epoch' = [epoch EXCEPT ![w] = resume_from_epoch[w]]
  /\ Goto(w, "epoch_loop")
  /\ UNCHANGED << maskVars, stepVars, schedVars, discoverVars, gradVars, args, run, diskVars, histVars, step, model, gen, resumeVars, oplog >>

(***************************************************************************)
(* main, line 607: the head of `for epoch in range(resume_from_epoch,      *)
(* args.num_epochs)`; after the loop, the wait_for_everyone of line 646.   *)
(***************************************************************************)
EpochLoop(w) ==
  /\ pc[w] = "epoch_loop"
  /\ IF epoch[w] < args.num_epochs
       THEN /\ Goto(w, "train")
            /\ step' = [step EXCEPT ![w] = 0]
            /\ UNCHANGED gen
       ELSE /\ EnterBarrier(w, "wait_646")
            /\ UNCHANGED step
  /\ UNCHANGED << maskVars, stepVars, schedVars, discoverVars, gradVars, args, run, diskVars, histVars, epoch, model, opt, sched,
                  resumeVars, oplog >>

\* `if args.rank == 0` of lines 161, 625 and 647: the coordinating worker
IsCoordinator(w) == Rank(w) = 0

(***************************************************************************)
(* train_one_epoch, lines 63-190: one iteration of the batch loop; the     *)
(* optimizer and the scheduler step and the weights change.  After the     *)
(* last batch the function returns and line 623 waits for everyone.  On    *)
(* rank 0 with --report_to_wandb the step calls wandb.log (lines 161-186)  *)
(* after the update of lines 153-155; the call is not inside any try, so   *)
(* an exception it raises leaves train_one_epoch and main.                 *)
(***************************************************************************)
TrainStep(w) ==
  /\ pc[w] = "train"
  /\ step[w] < args.num_batches
  /\ step' = [step EXCEPT ![w] = @ + 1]
  /\ model' = [model EXCEPT ![w] = @ + 1]
  /\ opt' = [opt EXCEPT ![w] = @ + 1]
  /\ sched' = [sched EXCEPT ![w] = @ + 1]
  /\ \/ IF step[w] + 1 = args.num_batches
          THEN EnterBarrier(w, "wait_623")
          ELSE Goto(w, "train") /\ UNCHANGED gen
     \/ /\ IsCoordinator(w) /\ args.report_to_wandb
        /\ Raise(w, "ReportError")
        /\ UNCHANGED gen
  /\ UNCHANGED << maskVars, stepVars, schedVars, discoverVars, gradVars, args, run, diskVars, histVars, epoch, resumeVars, oplog >>

\* The wait_for_everyone of line 644 left out: a waiting worker goes on alone.
BarrierWithoutLine644(w) ==
  \/ pc[w] = "wait_644"
  \/ \A v \in Workers : gen[v] >= gen[w]

\* accelerator.wait_for_everyone() of worker w returns only when every worker
\* has entered the same call (lines 510, 623, 644, 646).
BarrierReleased(w) == \A v \in Workers : gen[v] >= gen[w]

(***************************************************************************)
(* accelerator.wait_for_everyone() returns once every worker has entered   *)
(* the same call.  Lines 510, 623, 644 and 646.  A worker that is not the  *)
(* coordinator skips the block of line 625 and enters the wait of line     *)
(* 644 at once; the return from line 644 ends the loop body.               *)
(***************************************************************************)
WaitForEveryone(w) ==
  /\ pc[w] \in {"wait_510", "wait_623", "wait_644", "wait_646"}
  /\ BarrierReleased(w)
  /\ CASE pc[w] = "wait_510" ->
            Goto(w, "resume") /\ UNCHANGED << gen, epoch >>
       [] pc[w] = "wait_623" ->
            IF IsCoordinator(w)
              THEN Goto(w, "save") /\ UNCHANGED << gen, epoch >>
              ELSE EnterBarrier(w, "wait_644") /\ UNCHANGED epoch
       [] pc[w] = "wait_644" ->
            /\ Goto(w, "epoch_loop")
            /\ epoch' = [epoch EXCEPT ![w] = @ + 1]
            /\ UNCHANGED gen
       [] pc[w] = "wait_646" ->
            /\ IF IsCoordinator(w) THEN Goto(w, "final_save") ELSE Goto(w, "done")
            /\ UNCHANGED << gen, epoch >>
  /\ UNCHANGED << maskVars, stepVars, schedVars, discoverVars, gradVars, args, run, diskVars, histVars, step, model, opt, sched,
                  resumeVars, oplog >>

\* The dictionary with the number of the next epoch in its "epoch" entry.
CheckpointDictNextEpoch(w) ==
  [kind |-> "ckpt", epoch |-> epoch[w] + 1, model |-> model[w],
   opt |-> opt[w], sched |-> sched[w]]

\* lines 630-635: the dictionary written to checkpoint_<epoch>.pt
CheckpointDict(w) ==
  [kind |-> "ckpt", epoch |-> epoch[w], model |-> model[w],
   opt |-> opt[w], sched |-> sched[w]]

LogEntry(o, e, w) == [op |-> o, epoch |-> e, rank |-> Rank(w)]

\* The save with os.remove of the previous checkpoint moved before the write.
SaveCheckpointRemoveFirst(w) ==
  /\ pc[w] = "save"
  /\ dirExists' = TRUE
  /\ LET pruned == IF args.delete_previous_checkpoint /\ epoch[w] > 0
                     THEN [files EXCEPT ![epoch[w] - 1] = NoFile]
                     ELSE files
     IN \/ /\ files' = [pruned EXCEPT ![epoch[w]] = CheckpointDict(w)]
           /\ oplog' = Append(oplog, LogEntry("write", epoch[w], w))
           /\ Goto(w, "prune")
        \/ /\ files' \in { pruned, [pruned EXCEPT ![epoch[w]] = TornFile] }
           /\ oplog' = Append(oplog, LogEntry("write_failed", epoch[w], w))
           /\ Raise(w, "SaveError")
  /\ UNCHANGED << maskVars, stepVars, schedVars, discoverVars, gradVars, args, run, finalFile, histVars, epoch, step, model, opt, sched,
                  gen, resumeVars >>

(***************************************************************************)
(* main, lines 626-637: the directory is created if needed and the         *)
(* checkpoint of the epoch is written.  accelerator.save either succeeds   *)
(* or raises; a failed write leaves no file or a partial file under the    *)
(* name of this epoch.                                                     *)
(***************************************************************************)
SaveCheckpoint(w) ==
  /\ pc[w] = "save"
  /\ dirExists' = TRUE
  /\ \/ /\ files' = [files EXCEPT ![epoch[w]] = CheckpointDict(w)]
        /\ oplog' = Append(oplog, LogEntry("write", epoch[w], w))
        /\ Goto(w, "prune")
     \/ /\ files' \in { files, [files EXCEPT ![epoch[w]] = TornFile] }
        /\ oplog' = Append(oplog, LogEntry("write_failed", epoch[w], w))
        /\ Raise(w, "SaveError")
  /\ UNCHANGED << maskVars, stepVars, schedVars, discoverVars, gradVars, args, run, finalFile, histVars, epoch, step, model, opt, sched,
                  gen, resumeVars >>

\* The removal guarded by `epoch > 1`, keeping one more checkpoint.
DeletePreviousOffByOne(w) ==
  /\ pc[w] = "prune"
  /\ IF args.delete_previous_checkpoint /\ epoch[w] > 1
       THEN /\ files' = [files EXCEPT ![epoch[w] - 2] = NoFile]
            /\ oplog' = Append(oplog, LogEntry("remove", epoch[w] - 2, w))
       ELSE UNCHANGED << files, oplog >>
  /\ EnterBarrier(w, "wait_644")
  /\ UNCHANGED << maskVars, stepVars, schedVars, discoverVars, gradVars, args, run, dirExists, finalFile, histVars, epoch, step, model,
                  opt, sched, resumeVars >>

(***************************************************************************)
(* main, lines 639-644: the configuration is saved, the checkpoint of the  *)
(* previous epoch is removed when --delete_previous_checkpoint is set and  *)
(* epoch > 0, then the wait_for_everyone of line 644.                      *)
(***************************************************************************)
DeletePrevious(w) ==
  /\ pc[w] = "prune"
  /\ IF args.delete_previous_checkpoint /\ epoch[w] > 0
       THEN IF files[epoch[w] - 1].kind = "none"
              THEN /\ Raise(w, "FileNotFoundError")
                   /\ UNCHANGED << files, gen, oplog >>
              ELSE /\ files' = [files EXCEPT ![epoch[w] - 1] = NoFile]
                   /\ oplog' = Append(oplog, LogEntry("remove", epoch[w] - 1, w))
                   /\ EnterBarrier(w, "wait_644")
       ELSE /\ EnterBarrier(w, "wait_644")
            /\ UNCHANGED << files, oplog >>
  /\ UNCHANGED << maskVars, stepVars, schedVars, discoverVars, gradVars, args, run, dirExists, finalFile, histVars, epoch, step, model,
                  opt, sched, resumeVars >>

\* What rank 0 did with final_weights.pt, were wandb.save called always.
FinalOpsUploadAlways(w) ==
  << LogEntry("final", epoch[w], w), LogEntry("upload", epoch[w], w) >>

\* lines 652-660: final_weights.pt is written, then given to wandb.save when
\* both args.report_to_wandb and args.save_checkpoints_to_wandb are set
FinalOps(w) ==
  << LogEntry("final", epoch[w], w) >> \o
  (IF args.report_to_wandb /\ args.save_checkpoints_to_wandb
     THEN << LogEntry("upload", epoch[w], w) >>
     ELSE << >>)

(***************************************************************************)
(* main, lines 647-662: the coordinator writes final_weights.pt and        *)
(* uploads it when asked to.                                               *)
(***************************************************************************)
FinalSave(w) ==
  /\ pc[w] = "final_save"
  /\ dirExists' = TRUE
  /\ finalFile' = model[w]
  /\ oplog' = oplog \o FinalOps(w)
  /\ Goto(w, "done")
  /\ UNCHANGED << maskVars, stepVars, schedVars, discoverVars, gradVars, args, run, files, histVars, epoch, step, model, opt, sched,
                  gen, resumeVars >>

(***************************************************************************)
(* The program is launched again on the same save directory (after it      *)
(* ended, or after it was killed): the same command line, with or without  *)
(* --resume_from_checkpoint and --delete_previous_checkpoint.              *)
(***************************************************************************)
Restart ==
  /\ run < MaxRuns
  /\ run' = run + 1
  /\ \E r, d \in BOOLEAN :
       args' = [args EXCEPT !.resume_from_checkpoint = r,
                            !.delete_previous_checkpoint = d]
  /\ startFiles' = Glob
  /\ pc' = Fresh("parse_args")
  /\ err' = Fresh("none")
  /\ epoch' = Fresh(0)
  /\ step' = Fresh(0)
  /\ model' = Fresh(Unbound)
  /\ opt' = Fresh(Unbound)
  /\ sched' = Fresh(Unbound)
  /\ gen' = Fresh(0)
  /\ checkpoint_list' = Fresh({})
  /\ resume_from_checkpoint_path' = Fresh(Unbound)
  /\ resume_from_epoch' = Fresh(0)
  /\ oplog' = << >>
  /\ UNCHANGED << maskVars, stepVars, schedVars, discoverVars, gradVars, diskVars >>

Next ==
  \/ \E w \in Workers : ParseArgs(w)
  \/ \E w \in Workers : LoadModel(w)
  \/ \E w \in Workers : WaitForEveryone(w)
  \/ \E w \in Workers : ResumeFromCheckpoint(w)
  \/ \E w \in Workers : Setup(w)
  \/ \E w \in Workers : EpochLoop(w)
  \/ \E w \in Workers : TrainStep(w)
  \/ \E w \in Workers : SaveCheckpoint(w)
  \/ \E w \in Workers : DeletePrevious(w)
  \/ \E w \in Workers : FinalSave(w)
  \/ Restart

Spec == Init /\ [][Next]_vars

(***************************************************************************)
(* Properties of the run of main().                                        *)
(***************************************************************************)

\* Worker w has left the resume block of lines 549-566 (normally or by an
\* exception raised inside it).
PastResume(w) ==
  /\ pc[w] \notin {"parse_args", "load_model", "wait_510", "resume"}
  /\ err[w] # "ValueError"

\* No file operation of this run yet: the save directory is as it was at launch.
DiskAsLaunched == oplog = << >>

\* The epochs of the completed checkpoint writes of this run, in order.
WriteOps == SelectSeq(oplog, LAMBDA x : x.op = "write")

\* C1: when a previous run left a complete checkpoint for epoch N as the
\* latest one and the program is started with resume requested, every worker
\* that has left the resume block chose the file with the largest suffix,
\* holds its model weights, begins the epoch loop at N+1 and is in no error
\* state.
C1_ResumeAtNextEpoch ==
  \A w \in Workers :
    ( /\ args.resume_from_checkpoint /\ dirExists /\ DiskAsLaunched
      /\ Glob # {}
      /\ files[LatestCheckpoint(Glob)].kind = "ckpt"
      /\ PastResume(w) )
    => /\ pc[w] # "error"
       /\ resume_from_checkpoint_path[w] = LatestCheckpoint(Glob)
       /\ resume_from_epoch[w] = files[LatestCheckpoint(Glob)].epoch + 1

\* C2: when resume is requested and the save directory exists but holds no
\* checkpoint file, every worker that has left the resume block is in no
\* error state, has loaded nothing and starts the epoch loop at epoch 0.
C2_ResumeFallback ==
  \A w \in Workers :
    ( /\ args.resume_from_checkpoint /\ dirExists /\ DiskAsLaunched
      /\ Glob = {}
      /\ PastResume(w) )
    => /\ pc[w] # "error"
       /\ resume_from_checkpoint_path[w] = Unbound
       /\ resume_from_epoch[w] = 0

\* The save step of epoch n (write, configuration, removal) has completed on
\* the coordinator and the write of the next epoch has not begun.
SaveStepDone(n) ==
  \/ pc[0] = "wait_644" /\ epoch[0] = n
  \/ /\ pc[0] \in {"epoch_loop", "train", "wait_623", "save", "wait_646",
                   "final_save", "done"}
     /\ epoch[0] = n + 1

\* C3 as stated: with delete-previous-checkpoint set and a run started from
\* an empty save directory, after the save step of every epoch N >= 1 the
\* checkpoint files on disk are exactly those of epochs N and N-1.
C3_RetentionKeepsTwo ==
  \A n \in Epochs :
    ( /\ args.delete_previous_checkpoint /\ startFiles = {}
      /\ n >= 1 /\ SaveStepDone(n) )
    => Glob = {n, n - 1}

\* C3 amended: with delete-previous-checkpoint set and a run started from an
\* empty save directory, after the save step of every epoch N >= 1 the only
\* checkpoint file on disk is the complete checkpoint of epoch N.
C3_RetentionKeepsLatest ==
  \A n \in Epochs :
    ( /\ args.delete_previous_checkpoint /\ startFiles = {}
      /\ n >= 1 /\ SaveStepDone(n) )
    => /\ Glob = {n}
       /\ files[n].kind = "ckpt"

C3_Witness ==
  /\ args.delete_previous_checkpoint /\ startFiles = {}
  /\ SaveStepDone(1)
  /\ pc[0] = "wait_644"
  /\ Glob = {1}

\* A step that removes or alters the existing file of epoch e is either the
\* write of checkpoint e itself or the removal that follows the completed
\* write of checkpoint e+1.
CleanupStep(e) ==
  \/ \E w \in Workers : pc[w] = "save" /\ epoch[w] = e
  \/ \E w \in Workers :
       /\ pc[w] = "prune" /\ epoch[w] = e + 1
       /\ files[e + 1] = CheckpointDict(w)
       /\ oplog # << >>
       /\ oplog[Len(oplog)] = LogEntry("write", e + 1, w)

\* C4: checkpoint_(N-1) is removed only after the write of checkpoint_N has
\* completed; a step in which the write of checkpoint_N fails leaves every
\* other file as it was, and when the write of checkpoint_N has failed
\* (N >= 1) checkpoint_(N-1) is on disk, complete, as epoch N-1 wrote it.
C4_SafeCleanup ==
  /\ [][ \A e \in Epochs :
           (files[e].kind # "none" /\ files'[e] # files[e]) => CleanupStep(e) ]_vars
  /\ [](\A w \in Workers :
          (err[w] = "SaveError" /\ epoch[w] >= 1)
          => /\ files[epoch[w] - 1].kind = "ckpt"
             /\ files[epoch[w] - 1].epoch = epoch[w] - 1
             /\ files[epoch[w] - 1].opt = opt[w] - args.num_batches)

C4_Witness ==
  /\ args.delete_previous_checkpoint
  /\ err[0] = "SaveError" /\ epoch[0] = 1
  /\ files[0].kind = "ckpt"
  /\ files[1].kind = "torn"

\* The number of checkpoint writes the coordinator has completed, from its
\* position in the epoch loop.
WritesExpected ==
  IF pc[0] \in {"prune", "wait_644"}
    THEN epoch[0] - resume_from_epoch[0] + 1
    ELSE epoch[0] - resume_from_epoch[0]

\* C5: in a run whose epoch loop starts at r with num_epochs = E, the
\* completed checkpoint writes are those of epochs r, r+1, ... in this order,
\* each once; the write of epoch e is made with all batches of epoch e
\* trained on and before any batch of epoch e+1; the file of epoch e stores
\* epoch index e; a run that ends has written r .. E-1.
C5_OncePerEpoch ==
  /\ \A i \in 1 .. Len(WriteOps) : WriteOps[i].epoch = resume_from_epoch[0] + i - 1
  /\ pc[0] # "error" => Len(WriteOps) = WritesExpected
  /\ pc[0] \in {"save", "prune"} => step[0] = args.num_batches
  /\ \A e \in Epochs : files[e].kind = "ckpt" => files[e].epoch = e
  /\ pc[0] = "done" => Len(WriteOps) = args.num_epochs - resume_from_epoch[0]

C5_Witness ==
  /\ pc[0] = "done"
  /\ args.num_epochs = 2
  /\ Len(WriteOps) = 2
  /\ files[1].kind = "ckpt"

\* C6: every file operation is made by rank 0; while rank 0 is writing or
\* removing for epoch e every worker has finished all batches of epoch e and
\* none has begun epoch e+1.
C6_BarrierProtocol ==
  /\ \A i \in 1 .. Len(oplog) : oplog[i].rank = 0
  /\ \A w \in Workers : pc[w] \in {"save", "prune", "final_save"} => Rank(w) = 0
  /\ pc[0] \in {"save", "prune"} =>
       \A w \in Workers :
         /\ epoch[w] = epoch[0]
         /\ step[w] = args.num_batches
         /\ pc[w] \in {"wait_623", "wait_644", "save", "prune"}

C6_Witness ==
  /\ pc[0] = "prune" /\ epoch[0] = 1
  /\ \E w \in Workers : w # 0 /\ pc[w] = "wait_644" /\ epoch[w] = 1

\* C7: a worker that has gone through the resume block with a complete
\* checkpoint chosen, and has reached the epoch loop or stopped, holds the
\* optimizer state and the scheduler state stored in that checkpoint.
C7_RoundTrip ==
  \A w \in Workers :
    ( /\ DiskAsLaunched /\ PastResume(w)
      /\ pc[w] \in {"epoch_loop", "error"}
      /\ resume_from_checkpoint_path[w] # Unbound
      /\ files[resume_from_checkpoint_path[w]].kind = "ckpt" )
    => /\ opt[w] = files[resume_from_checkpoint_path[w]].opt
       /\ sched[w] = files[resume_from_checkpoint_path[w]].sched

\* The entries of the log of this run made with operation o.
OpsOf(o) == SelectSeq(oplog, LAMBDA x : x.op = o)

\* Worker w is out of the epoch loop.
LoopLeft(w) == pc[w] \in {"wait_646", "final_save", "done"}

\* C16: final_weights.pt is written by rank 0, at most once in a run and
\* exactly once in a run that rank 0 ends; when it is written every worker
\* has left the epoch loop and every per-epoch checkpoint write of the run
\* precedes it; the step that writes it changes no per-epoch checkpoint
\* file; it is uploaded exactly when it has been written and both
\* report_to_wandb and save_checkpoints_to_wandb are set.
C16_FinalSave ==
  /\ [](/\ Len(OpsOf("final")) <= 1
        /\ pc[0] = "done" <=> Len(OpsOf("final")) = 1
        /\ \A i \in 1 .. Len(oplog) :
             oplog[i].op = "final"
             => /\ oplog[i].rank = 0
                /\ \A w \in Workers : LoopLeft(w)
                /\ \A j \in 1 .. Len(oplog) :
                     oplog[j].op \in {"write", "write_failed", "remove"} => j < i
                /\ Len(WriteOps) = args.num_epochs - resume_from_epoch[0]
        /\ Len(OpsOf("upload")) =
             (IF args.report_to_wandb /\ args.save_checkpoints_to_wandb
                THEN Len(OpsOf("final")) ELSE 0))
  /\ [][ (finalFile' # finalFile \/ Len(OpsOf("final"))' > Len(OpsOf("final")))
         => /\ files' = files
            /\ pc[0] = "final_save"
            /\ finalFile' = model[0] ]_vars

C16_Witness ==
  /\ pc[0] = "done"
  /\ args.num_epochs = 2
  /\ Len(WriteOps) = 2
  /\ Len(OpsOf("final")) = 1
  /\ Len(OpsOf("upload")) = 0
  /\ finalFile = model[0]
  /\ files[0].kind = "ckpt" /\ files[1].kind = "ckpt"

\* C17: a metric-reporting call that raises does not end the worker: no
\* worker is ever stopped by the error of a reporting call.
C17_ReportingIsolated ==
  \A w \in Workers : ~(pc[w] = "error" /\ err[w] = "ReportError")

\* C18: when save_checkpoints_to_wandb is set and report_to_wandb is not,
\* every worker stops in parse_args with ValueError, having loaded no model,
\* trained on no batch and touched no file; with any other setting of the
\* two flags no worker stops with that error.
C18_ConfigError ==
  \A w \in Workers :
    IF args.save_checkpoints_to_wandb /\ ~args.report_to_wandb
      THEN /\ pc[w] \in {"parse_args", "error"}
           /\ pc[w] = "error" => err[w] = "ValueError"
           /\ model[w] = Unbound
           /\ step[w] = 0
           /\ oplog = << >>
           /\ Glob = {} /\ finalFile = Unbound
      ELSE err[w] # "ValueError"

C18_Witness ==
  /\ args.save_checkpoints_to_wandb /\ ~args.report_to_wandb
  /\ \A w \in Workers : pc[w] = "error" /\ err[w] = "ValueError"

(***************************************************************************)
(* Label masking of one token row, train_one_epoch lines 79-114.           *)
(* Position p of the Python row is index p+1 of the sequence.              *)
(***************************************************************************)
MaxLen      == 5     \* longest enumerated token row
MaxOrdinary == 2     \* ordinary (non-marker) token ids of the enumerated rows

Ignore       == -100  \* the label value the loss ignores
PadId        == 0     \* tokenizer.pad_token_id
MediaId      == 1     \* media_token_id, "<image>"
EndOfChunkId == 2     \* endofchunk_token_id, "<|endofchunk|>"
AnswerId     == 3     \* answer_token_id, "<answer>"

Vocab == 0 .. (AnswerId + MaxOrdinary)

Rows == UNION { [1 .. n -> Vocab] : n \in 1 .. MaxLen }

\* [<img>, U, s, e, r, <end>, G, <ans>, A1, <img>, U2, <ans>, A2] with
\* U, s, e, r, G, A1, U2, A2 = 4 .. 11
ScenarioRow ==
  << MediaId, 4, 5, 6, 7, EndOfChunkId, 8, AnswerId, 9, MediaId, 10, AnswerId, 11 >>

\* Line 80 left out: only position 0 is ignored, padding keeps its id.
FirstOnly(ids) ==
  [p \in 1 .. Len(ids) |-> IF p = 1 THEN Ignore ELSE ids[p]]

\* lines 79-81: labels = input_ids.clone(); padding and position 0 ignored
PadAndFirst(ids) ==
  [p \in 1 .. Len(ids) |-> IF ids[p] = PadId \/ p = 1 THEN Ignore ELSE ids[p]]

\* line 94: torch.where(labels[i] == endofchunk_token_id)[0]
EndOfChunkIdxs(lab) == { p \in 1 .. Len(lab) : lab[p] = EndOfChunkId }

\* The scan of the commented-out lines 86-88: it stops at the first <image>.
RECURSIVE SuppressUntilMedia(_, _)
SuppressUntilMedia(lab, token_idx) ==
  IF token_idx <= Len(lab) /\ lab[token_idx] # MediaId
    THEN SuppressUntilMedia([lab EXCEPT ![token_idx] = Ignore], token_idx + 1)
    ELSE lab

\* lines 98-101: every label from token_idx up to the first <answer> is ignored
RECURSIVE SuppressPrefix(_, _)
SuppressPrefix(lab, token_idx) ==
  IF token_idx <= Len(lab) /\ lab[token_idx] # AnswerId
    THEN SuppressPrefix([lab EXCEPT ![token_idx] = Ignore], token_idx + 1)
    ELSE lab

\* lines 105-111: from token_idx up to the next <answer> every label except
\* <image> is ignored
RECURSIVE SuppressAfterChunk(_, _)
SuppressAfterChunk(lab, token_idx) ==
  IF token_idx <= Len(lab) /\ lab[token_idx] # AnswerId
    THEN SuppressAfterChunk(
           IF lab[token_idx] = MediaId THEN lab
                                       ELSE [lab EXCEPT ![token_idx] = Ignore],
           token_idx + 1)
    ELSE lab

\* The scan of lines 105-111 run after the first <|endofchunk|> only.
SuppressChunksFirstOnly(lab, idxs) ==
  IF idxs = {}
    THEN lab
    ELSE LET endofchunk_idx == CHOOSE i \in idxs : \A j \in idxs : i <= j
         IN  SuppressAfterChunk(lab, endofchunk_idx + 1)

\* line 104: the scan is run after every <|endofchunk|> position, in order
RECURSIVE SuppressChunks(_, _)
SuppressChunks(lab, idxs) ==
  IF idxs = {}
    THEN lab
    ELSE LET endofchunk_idx == CHOOSE i \in idxs : \A j \in idxs : i <= j
         IN  SuppressChunks(SuppressAfterChunk(lab, endofchunk_idx + 1),
                            idxs \ {endofchunk_idx})

\* Line 113 left out: only <image> is ignored at the end.
FinalMarkersMediaOnly(lab) ==
  [p \in 1 .. Len(lab) |-> IF lab[p] = MediaId THEN Ignore ELSE lab[p]]

\* Line 114 left out: only <answer> is ignored at the end.
FinalMarkersAnswerOnly(lab) ==
  [p \in 1 .. Len(lab) |-> IF lab[p] = AnswerId THEN Ignore ELSE lab[p]]

\* lines 113-114: the labels of <answer> and <image> are ignored
FinalMarkers(lab) ==
  [p \in 1 .. Len(lab) |->
     IF lab[p] = AnswerId \/ lab[p] = MediaId THEN Ignore ELSE lab[p]]

\* The main program is not running while a row is masked.
MainParked ==
  /\ MainInit
  /\ args = [num_epochs |-> 1, num_batches |-> 1,
             resume_from_checkpoint |-> FALSE,
             delete_previous_checkpoint |-> FALSE,
             report_to_wandb |-> FALSE,
             save_checkpoints_to_wandb |-> FALSE]
  /\ dirExists = FALSE

InitMask ==
  /\ MainParked
  /\ DiscoverIdle
  /\ GradIdle
  /\ StepIdle
  /\ SchedIdle
  /\ input_ids \in Rows \cup {ScenarioRow}
  /\ labels = << >>
  /\ endofchunk_idxs = {}
  /\ mpc = "clone"
  /\ relabels = << >>

\* lines 79-81
MaskPadAndFirst ==
  /\ mpc = "clone"
  /\ labels' = PadAndFirst(input_ids)
  /\ mpc' = "prefix"
  /\ UNCHANGED << mainVars, stepVars, schedVars, discoverVars, gradVars, input_ids, endofchunk_idxs, relabels >>

\* lines 94-101
MaskPrefix ==
  /\ mpc = "prefix"
  /\ endofchunk_idxs' = EndOfChunkIdxs(labels)
  /\ labels' = SuppressPrefix(labels, 1)
  /\ mpc' = "chunks"
  /\ UNCHANGED << mainVars, stepVars, schedVars, discoverVars, gradVars, input_ids, relabels >>

\* lines 104-111
MaskChunks ==
  /\ mpc = "chunks"
  /\ labels' = SuppressChunks(labels, endofchunk_idxs)
  /\ mpc' = "markers"
  /\ UNCHANGED << mainVars, stepVars, schedVars, discoverVars, gradVars, input_ids, endofchunk_idxs, relabels >>

\* lines 113-114
MaskMarkers ==
  /\ mpc = "markers"
  /\ labels' = FinalMarkers(labels)
  /\ mpc' = "done"
  /\ UNCHANGED << mainVars, stepVars, schedVars, discoverVars, gradVars, input_ids, endofchunk_idxs, relabels >>

\* lines 79-114 on one row: the label row of the token row ids
LabelMask(ids) ==
  LET cloned == PadAndFirst(ids)
      idxs   == EndOfChunkIdxs(cloned)
  IN  FinalMarkers(SuppressChunks(SuppressPrefix(cloned, 1), idxs))

\* The label row is used as the token row of a second masking (lines 79-114).
MaskAgain ==
  /\ mpc = "done"
  /\ relabels' = LabelMask(labels)
  /\ mpc' = "remasked"
  /\ UNCHANGED << mainVars, stepVars, schedVars, discoverVars, gradVars, input_ids, labels, endofchunk_idxs >>

NextMask ==
  \/ MaskPadAndFirst
  \/ MaskPrefix
  \/ MaskChunks
  \/ MaskMarkers
  \/ MaskAgain

SpecMask == InitMask /\ [][NextMask]_vars

(***************************************************************************)
(* Properties of the label masking.                                        *)
(***************************************************************************)

\* The positions (indices) of a label row that are not ignored.
Supervised(lab) == { p \in 1 .. Len(lab) : lab[p] # Ignore }

\* C8 as stated: for the scenario row the labels are ignored everywhere
\* except at the positions of A1 and A2 (indices 9 and 13), which keep their
\* token ids; the position of U2 is ignored.
C8_ScenarioOnlyAnswers ==
  (mpc = "done" /\ input_ids = ScenarioRow)
  => /\ Supervised(labels) = {9, 13}
     /\ labels[9] = input_ids[9] /\ labels[13] = input_ids[13]
     /\ labels[11] = Ignore

\* C8 amended: for the scenario row the labels are ignored everywhere except
\* at the positions of A1, U2 and A2 (indices 9, 11 and 13), which keep their
\* token ids: no turn-end marker closes the span of A1, so U2 is supervised.
C8_ScenarioAnswersAndU2 ==
  (mpc = "done" /\ input_ids = ScenarioRow)
  => /\ Supervised(labels) = {9, 11, 13}
     /\ \A p \in {9, 11, 13} : labels[p] = input_ids[p]

C8_Witness ==
  /\ mpc = "done" /\ input_ids = ScenarioRow
  /\ Len(labels) = 13
  /\ labels[11] = 10

HasAnswer(ids) == \E p \in 1 .. Len(ids) : ids[p] = AnswerId

\* C9: a token row without an answer marker gets a label row that is ignored
\* at every position.
C9_NoAnswerAllIgnored ==
  (mpc = "done" /\ ~HasAnswer(input_ids))
  => /\ Len(labels) = Len(input_ids)
     /\ Supervised(labels) = {}

C9_Witness ==
  /\ mpc = "done" /\ ~HasAnswer(input_ids)
  /\ Len(input_ids) >= 4
  /\ input_ids[1] = MediaId
  /\ \E p \in 2 .. Len(input_ids) : input_ids[p] = EndOfChunkId
  /\ \E p \in 2 .. Len(input_ids) : input_ids[p] = MediaId
  /\ \E p \in 2 .. Len(input_ids) : input_ids[p] > AnswerId
  /\ Supervised(labels) = {}

\* C10: in the label row, position 0 and every position that holds the
\* padding id, the media marker or the answer marker is ignored.
C10_StructuralIgnored ==
  mpc = "done"
  => /\ labels[1] = Ignore
     /\ \A p \in 1 .. Len(input_ids) :
          input_ids[p] \in {PadId, MediaId, AnswerId} => labels[p] = Ignore

\* A row where a media marker lies between a turn-end marker and the next
\* answer marker (skipped by the scan of lines 105-111), with padding.
C10_Witness ==
  /\ mpc = "done"
  /\ Len(input_ids) >= 5
  /\ \E p \in 2 .. Len(input_ids) - 2 :
       /\ input_ids[p] = EndOfChunkId
       /\ input_ids[p + 1] = MediaId
       /\ input_ids[p + 2] = AnswerId
       /\ p \in endofchunk_idxs
  /\ \E p \in 2 .. Len(input_ids) : input_ids[p] = PadId
  /\ \E p \in 2 .. Len(input_ids) : input_ids[p] = AnswerId /\ labels[p] = Ignore

\* The positions (indices) of a label row that are ignored.
IgnoredSet(lab) == { p \in 1 .. Len(lab) : lab[p] = Ignore }

\* C11 as stated: masking the label row again gives a label row with the
\* same set of ignored positions as the first masking.
C11_Idempotent ==
  mpc = "remasked" => IgnoredSet(relabels) = IgnoredSet(labels)

\* C11 amended: masking the label row again gives a label row that is
\* ignored at every position (no answer marker is left in the label row), so
\* its ignored positions contain those of the first masking, and are the
\* same only when the first masking supervised nothing.
C11_RemaskIgnoresAll ==
  mpc = "remasked"
  => /\ Len(relabels) = Len(labels)
     /\ IgnoredSet(relabels) = 1 .. Len(labels)
     /\ IgnoredSet(labels) \subseteq IgnoredSet(relabels)
     /\ (IgnoredSet(relabels) = IgnoredSet(labels)) <=> (Supervised(labels) = {})
     /\ labels = LabelMask(input_ids)

C11_Witness ==
  /\ mpc = "remasked"
  /\ Supervised(labels) # {}
  /\ \E p \in 1 .. Len(input_ids) : input_ids[p] = EndOfChunkId /\ labels[p] # Ignore
  /\ IgnoredSet(relabels) = 1 .. Len(labels)

\* The nearest index q with from <= q < p that holds an answer marker or a
\* turn-end marker exists and holds an answer marker.
InAnswerSpan(ids, p, from) ==
  \E q \in from .. (p - 1) :
    /\ ids[q] = AnswerId
    /\ \A r \in (q + 1) .. (p - 1) : ids[r] \notin {AnswerId, EndOfChunkId}

\* The label row has the length of the token row and holds -100 or the token.
LabelShape ==
  /\ Len(labels) = Len(input_ids)
  /\ \A p \in 1 .. Len(input_ids) : labels[p] \in {Ignore, input_ids[p]}

\* C20 as stated: the label at position p keeps the token id exactly when
\* p > 0, the token is not padding, media marker or answer marker, and the
\* nearest earlier position holding an answer or turn-end marker holds an
\* answer marker (index 1 is position 0).
C20_Characterization ==
  mpc = "done"
  => /\ LabelShape
     /\ \A p \in 1 .. Len(input_ids) :
          (labels[p] # Ignore) <=>
             /\ p > 1
             /\ input_ids[p] \notin {PadId, MediaId, AnswerId}
             /\ InAnswerSpan(input_ids, p, 1)

\* C20 amended: as stated, except that a marker at position 0 does not
\* count: the nearest position q with 0 < q < p holding an answer or
\* turn-end marker must exist and hold an answer marker.
C20_CharacterizationFromOne ==
  mpc = "done"
  => /\ LabelShape
     /\ \A p \in 1 .. Len(input_ids) :
          (labels[p] # Ignore) <=>
             /\ p > 1
             /\ input_ids[p] \notin {PadId, MediaId, AnswerId}
             /\ InAnswerSpan(input_ids, p, 2)

\* Two turns: a supervised answer token, its closing turn-end marker
\* (supervised) and a suppressed token of the next turn.
C20_Witness ==
  /\ mpc = "done"
  /\ Len(input_ids) >= 5
  /\ \E p \in 2 .. Len(input_ids) - 3 :
       /\ input_ids[p] = AnswerId
       /\ input_ids[p + 1] > AnswerId /\ labels[p + 1] = input_ids[p + 1]
       /\ input_ids[p + 2] = EndOfChunkId /\ labels[p + 2] = EndOfChunkId
       /\ input_ids[p + 3] > AnswerId /\ labels[p + 3] = Ignore

\* The scan of lines 105-111 without the exemption of <image>: every label
\* from token_idx up to the next <answer> is ignored.
RECURSIVE ScanNoExemption(_, _)
ScanNoExemption(lab, token_idx) ==
  IF token_idx <= Len(lab) /\ lab[token_idx] # AnswerId
    THEN ScanNoExemption([lab EXCEPT ![token_idx] = Ignore], token_idx + 1)
    ELSE lab

RECURSIVE ChunksNoExemption(_, _)
ChunksNoExemption(lab, idxs) ==
  IF idxs = {}
    THEN lab
    ELSE LET endofchunk_idx == CHOOSE i \in idxs : \A j \in idxs : i <= j
         IN  ChunksNoExemption(ScanNoExemption(lab, endofchunk_idx + 1),
                               idxs \ {endofchunk_idx})

\* The label row before lines 113-114, with and without the exemption.
BeforeMarkers(ids) ==
  SuppressChunks(SuppressPrefix(PadAndFirst(ids), 1), EndOfChunkIdxs(PadAndFirst(ids)))

BeforeMarkersNoExemption(ids) ==
  ChunksNoExemption(SuppressPrefix(PadAndFirst(ids), 1), EndOfChunkIdxs(PadAndFirst(ids)))

\* C24: for every token row the final label row equals the one of the
\* masker whose scan after <|endofchunk|> ignores <image> like any other
\* token: the exemption of <image> in the later pre-answer spans does not
\* show in the output.
C24_ExemptionUnobservable ==
  /\ mpc = "markers" => labels = BeforeMarkers(input_ids)
  /\ mpc = "done" => labels = FinalMarkers(BeforeMarkersNoExemption(input_ids))

\* A row where the exemption acts: the rows differ before lines 113-114.
C24_Witness ==
  /\ mpc = "done"
  /\ BeforeMarkers(input_ids) # BeforeMarkersNoExemption(input_ids)
  /\ \E p \in 1 .. Len(input_ids) :
       /\ BeforeMarkers(input_ids)[p] = MediaId
       /\ labels[p] = Ignore
  /\ labels = FinalMarkers(BeforeMarkersNoExemption(input_ids))

(***************************************************************************)
(* One epoch of train_one_epoch, lines 63-190, call by call: the batches   *)
(* zip draws from the data streams, the forward and backward pass of each  *)
(* stream, the optimizer update and the reporting.                         *)
(***************************************************************************)
MaxStreams   == 2     \* largest number of data streams, len(mimicit_loaders)
MaxStreamLen == 2     \* largest len() of one data stream
MaxLoss      == 2     \* largest loss value of a forward pass

StreamLens == UNION { [1 .. k -> 0 .. MaxStreamLen] : k \in 1 .. MaxStreams }

Streams == 1 .. Len(lens)

\* The smallest of the stream lengths.
ShortestLen(l) == CHOOSE n \in 0 .. MaxStreamLen :
                    /\ \E s \in 1 .. Len(l) : l[s] = n
                    /\ \A s \in 1 .. Len(l) : l[s] >= n

Call(c, s) == [call |-> c, stream |-> s]

InitStep ==
  /\ MainParked
  /\ DiscoverIdle
  /\ GradIdle
  /\ MaskIdle
  /\ SchedIdle
  /\ lens \in StreamLens
  /\ taken = [s \in 1 .. Len(lens) |-> 0]
  /\ batch_mimicits = << >>
  /\ num_steps = 0
  /\ cur = 0
  /\ sync_gradients = TRUE
  /\ reporting \in BOOLEAN
  /\ trace = << >>
  /\ tpc = "zip"
  /\ loss_mimicit = 0
  /\ total_losses = << >>
  /\ mean_loss = NotGiven

\* The iteration goes on as long as the first stream has a batch left.
FirstStreamExhausted == taken[1] = lens[1]

\* zip(*mimicit_loaders), line 64: the iteration ends when a stream has no
\* batch left.
SomeStreamExhausted == \E s \in Streams : taken[s] = lens[s]

(***************************************************************************)
(* lines 63-73: zip asks every stream in turn for its next batch.  When a  *)
(* stream has none the loop ends; the streams asked before it have given   *)
(* one batch that no step uses.  Otherwise a step begins; whether it is a  *)
(* sync boundary is decided by the accelerator.                            *)
(***************************************************************************)
ZipNext ==
  /\ tpc = "zip"
  /\ IF SomeStreamExhausted
       THEN LET stop == CHOOSE s \in Streams :
                          /\ taken[s] >= lens[s]
                          /\ \A t \in Streams : taken[t] >= lens[t] => s <= t
            IN  /\ taken' = [s \in Streams |->
                               IF s < stop /\ taken[s] < lens[s]
                                 THEN taken[s] + 1 ELSE taken[s]]
                /\ tpc' = "end"
                /\ UNCHANGED << batch_mimicits, cur, sync_gradients, trace, total_losses >>
       ELSE /\ taken' = [s \in Streams |-> taken[s] + 1]
            /\ batch_mimicits' = [s \in Streams |-> taken[s] + 1]
            /\ cur' = 1
            /\ sync_gradients' \in BOOLEAN
            /\ trace' = << >>
            /\ total_losses' = << >>
            /\ tpc' = "forward"
  /\ UNCHANGED << mainVars, maskVars, schedVars, discoverVars, gradVars, lens, num_steps, reporting,
                  loss_mimicit, mean_loss >>

\* lines 75-122: labels are masked and the model is run on the batch of
\* stream cur
Forward ==
  /\ tpc = "forward"
  /\ trace' = Append(trace, Call("forward", cur))
  /\ loss_mimicit' \in 0 .. MaxLoss
  /\ tpc' = "backward"
  /\ UNCHANGED << mainVars, maskVars, schedVars, discoverVars, gradVars, lens, taken, batch_mimicits, num_steps, cur,
                  sync_gradients, reporting, total_losses, mean_loss >>

\* lines 123-128: accelerator.backward on the loss of stream cur, the loss
\* is appended to total_losses, then the next stream or the end of the loop
\* of line 74
Backward ==
  /\ tpc = "backward"
  /\ trace' = Append(trace, Call("backward", cur))
  /\ total_losses' = Append(total_losses, loss_mimicit)
  /\ IF cur < Len(lens)
       THEN cur' = cur + 1 /\ tpc' = "forward"
       ELSE cur' = 0 /\ tpc' = "update"
  /\ UNCHANGED << mainVars, maskVars, schedVars, discoverVars, gradVars, lens, taken, batch_mimicits, num_steps,
                  sync_gradients, reporting, loss_mimicit, mean_loss >>

\* sum(total_losses), line 130
RECURSIVE Sum(_)
Sum(l) == IF l = << >> THEN 0 ELSE l[1] + Sum(Tail(l))

\* The sum of the losses, not divided.
TotalLossSum(l) == Fraction(Sum(l), 1)

\* line 131: total_loss_sum / len(total_losses)
MeanLoss(l) == Fraction(Sum(l), Len(l))

\* The calls of lines 150-155 with the clipping made on every step.
UpdateCallsClipAlways(sync) ==
  << Call("clip_grad_norm_", 0), Call("optimizer.step", 0),
     Call("lr_scheduler.step", 0), Call("optimizer.zero_grad", 0) >>

\* lines 150-155: clip_grad_norm_ under `if accelerator.sync_gradients`, then
\* optimizer.step(), lr_scheduler.step() and optimizer.zero_grad()
UpdateCalls(sync) ==
  (IF sync THEN << Call("clip_grad_norm_", 0) >> ELSE << >>)
  \o << Call("optimizer.step", 0), Call("lr_scheduler.step", 0),
        Call("optimizer.zero_grad", 0) >>

\* lines 130-155
OptimizerUpdate ==
  /\ tpc = "update"
  /\ mean_loss' = MeanLoss(total_losses)
  /\ trace' = trace \o UpdateCalls(sync_gradients)
  /\ tpc' = "report"
  /\ UNCHANGED << mainVars, maskVars, schedVars, discoverVars, gradVars, lens, taken, batch_mimicits, num_steps, cur,
                  sync_gradients, reporting, loss_mimicit, total_losses >>

\* lines 157-190: the two wandb.log calls at a sync boundary on the reporting
\* worker; the step is complete
Report ==
  /\ tpc = "report"
  /\ trace' = IF sync_gradients /\ reporting
                THEN trace \o << Call("wandb.log", 0), Call("wandb.log", 0) >>
                ELSE trace
  /\ num_steps' = num_steps + 1
  /\ tpc' = "zip"
  /\ UNCHANGED << mainVars, maskVars, schedVars, discoverVars, gradVars, lens, taken, batch_mimicits, cur,
                  sync_gradients, reporting, loss_mimicit, total_losses, mean_loss >>

NextStep ==
  \/ ZipNext
  \/ Forward
  \/ Backward
  \/ OptimizerUpdate
  \/ Report

SpecStep == InitStep /\ [][NextStep]_vars

(***************************************************************************)
(* Properties of the training step.                                        *)
(***************************************************************************)

\* How many times c was called in the current step.
Count(c) == Cardinality({ i \in 1 .. Len(trace) : trace[i].call = c })

UpdateNames == {"clip_grad_norm_", "optimizer.step", "lr_scheduler.step",
                "optimizer.zero_grad"}

\* The update of the current step has been made.
Updated == tpc = "report" \/ (tpc \in {"zip", "end"} /\ num_steps > 0)

\* C12 as stated: clipping, optimizer step, scheduler step and clearing of
\* gradients are called only in a step that is a sync boundary.
C12_AllGatedBySync ==
  (\E i \in 1 .. Len(trace) : trace[i].call \in UpdateNames) => sync_gradients

\* C12 amended: only the gradient-norm clipping is called under the sync
\* flag (once at a sync boundary, never otherwise); optimizer.step,
\* lr_scheduler.step and optimizer.zero_grad are each called once in every
\* step, sync boundary or not, in this order after the clipping.
C12_OnlyClipGated ==
  /\ Count("clip_grad_norm_") > 0 => sync_gradients
  /\ Updated =>
       /\ Count("clip_grad_norm_") = (IF sync_gradients THEN 1 ELSE 0)
       /\ Count("optimizer.step") = 1
       /\ Count("lr_scheduler.step") = 1
       /\ Count("optimizer.zero_grad") = 1
       /\ \A i, j \in 1 .. Len(trace) :
            ( \/ trace[i].call = "clip_grad_norm_" /\ trace[j].call = "optimizer.step"
              \/ trace[i].call = "optimizer.step" /\ trace[j].call = "lr_scheduler.step"
              \/ trace[i].call = "lr_scheduler.step" /\ trace[j].call = "optimizer.zero_grad" )
            => i < j
  /\ ~Updated => \A i \in 1 .. Len(trace) : trace[i].call \notin UpdateNames

C12_Witness ==
  /\ tpc = "report"
  /\ ~sync_gradients
  /\ num_steps = 1
  /\ Count("optimizer.step") = 1
  /\ Count("clip_grad_norm_") = 0

\* C15: the steps made in an epoch are as many as the shortest stream is
\* long; every step uses one batch of every stream (the batch of the same
\* number); the loop ends as soon as a stream has no batch left.
C15_EpochLength ==
  /\ num_steps <= ShortestLen(lens)
  /\ tpc = "end" => num_steps = ShortestLen(lens)
  /\ tpc \in {"forward", "backward", "update", "report"} =>
       /\ Len(batch_mimicits) = Len(lens)
       /\ \A s \in Streams : batch_mimicits[s] = num_steps + 1
       /\ \A s \in Streams : batch_mimicits[s] <= lens[s]
  /\ tpc \in {"update", "report"} =>
       \A s \in Streams : /\ Count("forward") = Len(lens)
                          /\ \E i \in 1 .. Len(trace) : trace[i] = Call("forward", s)
  /\ \A s \in Streams : taken[s] <= lens[s] /\ taken[s] <= num_steps + 1
  /\ tpc = "zip" => \A s \in Streams : taken[s] = num_steps

C15_Witness ==
  /\ tpc = "end"
  /\ Len(lens) = 2
  /\ lens[1] = 2 /\ lens[2] = 1
  /\ num_steps = 1
  /\ taken[1] = 2

\* The forward and backward calls of the current step are f1 b1 f2 b2 ...
Interleaved ==
  \A i \in 1 .. Len(trace) :
    IF i <= 2 * Len(lens)
      THEN trace[i] = (IF i % 2 = 1 THEN Call("forward", (i + 1) \div 2)
                                    ELSE Call("backward", i \div 2))
      ELSE trace[i].call \notin {"forward", "backward"}

\* C22: in a step with streams 1..k the calls are forward 1, backward 1,
\* forward 2, backward 2, ..., each backward on the loss its forward
\* returned; once the update is made there was exactly one backward per
\* stream, optimizer.step comes after the backward of stream k, and the
\* loss of the step is the sum of the k stream losses divided by k.
C22_PerStreamBackward ==
  /\ [](/\ Interleaved
        /\ Updated =>
             /\ Count("backward") = Len(lens)
             /\ Len(total_losses) = Len(lens)
             /\ \A i, j \in 1 .. Len(trace) :
                  (trace[i].call = "backward" /\ trace[j].call = "optimizer.step")
                  => i < j
             /\ mean_loss.given
             /\ mean_loss.n = Sum(total_losses)
             /\ mean_loss.d = Len(lens))
  /\ [][ /\ tpc = "backward" => total_losses' = Append(total_losses, loss_mimicit)
         /\ tpc # "backward" /\ tpc' # "forward" => total_losses' = total_losses
       ]_vars

C22_Witness ==
  /\ tpc = "report"
  /\ Len(lens) = 2
  /\ total_losses = << 2, 1 >>
  /\ mean_loss = Fraction(3, 2)
  /\ trace[1] = Call("forward", 1) /\ trace[2] = Call("backward", 1)
  /\ trace[3] = Call("forward", 2) /\ trace[4] = Call("backward", 2)

(***************************************************************************)
(* The schedule arithmetic of main, lines 573-579.  A float is kept as the *)
(* exact fraction n/d.                                                     *)
(***************************************************************************)
MaxTotal    == 6     \* largest enumerated total_training_steps
MaxAccum    == 4     \* largest args.gradient_accumulation_steps
MaxWarmup   == 2     \* largest args.warmup_steps
MaxRatioDen == 4     \* largest denominator of an enumerated warmup ratio

\* accumulation_factor=4, raw_warmup_ratio=0.1, raw_total=1000
ScenarioTotal == 1000
ScenarioRatio == Fraction(1, 10)

\* the ratios n/d between 0 and 1
Ratios ==
  { f \in { Fraction(n, d) : n \in 0 .. MaxRatioDen, d \in 1 .. MaxRatioDen } :
      f.n <= f.d }

InitSched ==
  /\ MainParked
  /\ DiscoverIdle
  /\ GradIdle
  /\ MaskIdle
  /\ StepIdle
  /\ total_training_steps \in (1 .. MaxTotal) \cup {ScenarioTotal}
  /\ warmup_steps_ratio \in Ratios \cup {ScenarioRatio, NotGiven}
  /\ \E w \in 0 .. MaxWarmup : warmup_steps = Fraction(w, 1)
  /\ gradient_accumulation_steps \in 1 .. MaxAccum
  /\ distributed_type \in {"NO", "MULTI_GPU", "DEEPSPEED"}
  /\ num_processes \in 1 .. NumWorkers
  /\ num_warmup_steps = Unbound
  /\ num_training_steps = Unbound
  /\ spc = "warmup"

\* round(n/d) to the nearest integer, a tie going to the even one
Round(n, d) ==
  LET q == n \div d
      r == n % d
  IN  IF 2 * r < d THEN q
      ELSE IF 2 * r > d THEN q + 1
      ELSE IF q % 2 = 0 THEN q ELSE q + 1

\* The product of line 573 rounded to an integer.
WarmupStepsRounded(total, ratio, warmup) ==
  IF ratio.given THEN Fraction(Round(total * ratio.n, ratio.d), 1) ELSE warmup

\* line 573: total_training_steps * args.warmup_steps_ratio if the ratio is
\* given, else args.warmup_steps
WarmupSteps(total, ratio, warmup) ==
  IF ratio.given THEN Fraction(total * ratio.n, ratio.d) ELSE warmup

\* The quotient rounded up.
CeilDivide(x, k) == (x.n + x.d * k - 1) \div (x.d * k)

\* x // k of lines 575-576: the largest integer not above x / k
FloorDivide(x, k) == x.n \div (x.d * k)

\* line 573
ComputeWarmup ==
  /\ spc = "warmup"
  /\ warmup_steps' = WarmupSteps(total_training_steps, warmup_steps_ratio, warmup_steps)
  /\ spc' = "divide"
  /\ UNCHANGED << mainVars, maskVars, stepVars, discoverVars, gradVars, total_training_steps,
                  warmup_steps_ratio, gradient_accumulation_steps, distributed_type,
                  num_processes, num_warmup_steps, num_training_steps >>

\* lines 575-576
DivideByAccumulation ==
  /\ spc = "divide"
  /\ num_warmup_steps' = FloorDivide(warmup_steps, gradient_accumulation_steps)
  /\ num_training_steps' =
       FloorDivide(Fraction(total_training_steps, 1), gradient_accumulation_steps)
  /\ spc' = "scale"
  /\ UNCHANGED << mainVars, maskVars, stepVars, discoverVars, gradVars, total_training_steps,
                  warmup_steps_ratio, warmup_steps, gradient_accumulation_steps,
                  distributed_type, num_processes >>

\* The multiplication by the number of processes made in every mode.
ScaleByProcessesAlways ==
  /\ spc = "scale"
  /\ num_training_steps' = num_training_steps * num_processes
  /\ num_warmup_steps' = num_warmup_steps * num_processes
  /\ spc' = "done"
  /\ UNCHANGED << mainVars, maskVars, stepVars, discoverVars, gradVars, total_training_steps,
                  warmup_steps_ratio, warmup_steps, gradient_accumulation_steps,
                  distributed_type, num_processes >>

\* lines 577-579
ScaleByProcesses ==
  /\ spc = "scale"
  /\ IF distributed_type = "DEEPSPEED"
       THEN /\ num_training_steps' = num_training_steps * num_processes
            /\ num_warmup_steps' = num_warmup_steps * num_processes
       ELSE UNCHANGED << num_training_steps, num_warmup_steps >>
  /\ spc' = "done"
  /\ UNCHANGED << mainVars, maskVars, stepVars, discoverVars, gradVars, total_training_steps,
                  warmup_steps_ratio, warmup_steps, gradient_accumulation_steps,
                  distributed_type, num_processes >>

NextSched ==
  \/ ComputeWarmup
  \/ DivideByAccumulation
  \/ ScaleByProcesses

SpecSched == InitSched /\ [][NextSched]_vars

(***************************************************************************)
(* Properties of the schedule arithmetic.                                  *)
(***************************************************************************)

IsScenario ==
  /\ gradient_accumulation_steps = 4
  /\ warmup_steps_ratio = ScenarioRatio
  /\ total_training_steps = ScenarioTotal

\* The schedule is computed, with a warmup ratio, without worker scaling.
RatioCase ==
  /\ spc = "done"
  /\ warmup_steps_ratio.given
  /\ distributed_type # "DEEPSPEED"

C14_RecoveryBound ==
  (spc = "done" /\ distributed_type # "DEEPSPEED")
  => /\ num_training_steps * gradient_accumulation_steps <= total_training_steps
     /\ total_training_steps - gradient_accumulation_steps
          < num_training_steps * gradient_accumulation_steps

C14_Witness ==
  /\ spc = "done" /\ distributed_type # "DEEPSPEED"
  /\ total_training_steps = 5
  /\ gradient_accumulation_steps = 2
  /\ num_training_steps = 2

\* raw_warmup: args.warmup_steps as line 575 reads it, n/d.
\* The largest integer q with q * accumulation_factor <= raw_warmup.
WarmupQuotient ==
  CHOOSE q \in 0 .. warmup_steps.n :
    /\ q * gradient_accumulation_steps * warmup_steps.d <= warmup_steps.n
    /\ warmup_steps.n < (q + 1) * gradient_accumulation_steps * warmup_steps.d

\* C21: effective_warmup is raw_warmup div accumulation_factor and
\* effective_total is raw_total div accumulation_factor; in DEEPSPEED mode
\* both quotients are multiplied by the worker count, after the division;
\* in every other mode the worker count changes neither value.
C21_WorkerScaling ==
  spc = "done"
  => LET t == total_training_steps \div gradient_accumulation_steps
     IN  IF distributed_type = "DEEPSPEED"
           THEN /\ num_training_steps = t * num_processes
                /\ num_warmup_steps = WarmupQuotient * num_processes
           ELSE /\ num_training_steps = t
                /\ num_warmup_steps = WarmupQuotient

\* The multiplication comes after the division: 5 div 2 = 2, times 2 is 4.
C21_Witness ==
  /\ spc = "done" /\ distributed_type = "DEEPSPEED"
  /\ num_processes = 2
  /\ total_training_steps = 5 /\ gradient_accumulation_steps = 2
  /\ num_training_steps = 4
  /\ (total_training_steps * num_processes) \div gradient_accumulation_steps = 5

(***************************************************************************)
(* Discovery of the latest checkpoint, main lines 553-558.  A path is the  *)
(* sequence of its pieces: the directory, "/", "checkpoint", "_", the      *)
(* decimal digits of the epoch, ".", "pt".                                 *)
(***************************************************************************)
MaxSuffix == 11     \* largest epoch suffix of an enumerated checkpoint file

DigitChar == << "0", "1", "2", "3", "4", "5", "6", "7", "8", "9" >>

DigitValue(c) == CHOOSE v \in 0 .. 9 : DigitChar[v + 1] = c

\* str(epoch) of the f-string of line 636
RECURSIVE Format(_)
Format(k) ==
  IF k < 10 THEN << DigitChar[k + 1] >>
  ELSE Format(k \div 10) \o << DigitChar[(k % 10) + 1] >>

\* int(s) of a string of decimal digits
RECURSIVE ParseInt(_)
ParseInt(ds) ==
  IF ds = << >> THEN 0
  ELSE 10 * ParseInt(SubSeq(ds, 1, Len(ds) - 1)) + DigitValue(ds[Len(ds)])

\* f"{args.external_save_dir}/checkpoint_{epoch}.pt", line 636
CheckpointPath(k) ==
  << "save_dir", "/", "checkpoint", "_" >> \o Format(k) \o << ".", "pt" >>

\* x.split(c)[-1]
SplitLast(x, c) ==
  LET at == { i \in 1 .. Len(x) : x[i] = c }
  IN  IF at = {} THEN x
      ELSE SubSeq(x, (CHOOSE i \in at : \A j \in at : j <= i) + 1, Len(x))

\* x.split(c)[0]
SplitFirst(x, c) ==
  LET at == { i \in 1 .. Len(x) : x[i] = c }
  IN  IF at = {} THEN x
      ELSE SubSeq(x, 1, (CHOOSE i \in at : \A j \in at : i <= j) - 1)

\* The paths ordered as text: the digits compared one by one, a shorter name
\* before its extensions (names of at most two digits).
SortKeyAsText(x) ==
  LET ds == SplitFirst(SplitLast(x, "_"), ".")
  IN  (DigitValue(ds[1]) + 1) * 11
        + (IF Len(ds) > 1 THEN DigitValue(ds[2]) + 1 ELSE 0)

\* line 557: key=lambda x: int(x.split("_")[-1].split(".")[0])
SortKey(x) == ParseInt(SplitFirst(SplitLast(x, "_"), "."))

\* sorted(checkpoint_list, key=...)[-1]
SortedLast(list) == CHOOSE x \in list : \A y \in list : SortKey(y) <= SortKey(x)

InitDiscover ==
  /\ MainParked
  /\ MaskIdle
  /\ StepIdle
  /\ SchedIdle
  /\ GradIdle
  /\ listing \in SUBSET (0 .. MaxSuffix)
  /\ found = {}
  /\ latest = << >>
  /\ dpc = "glob"

\* line 553: glob.glob(f"{args.external_save_dir}/checkpoint_*.pt")
GlobCheckpoints ==
  /\ dpc = "glob"
  /\ found' = { CheckpointPath(k) : k \in listing }
  /\ dpc' = "select"
  /\ UNCHANGED << mainVars, maskVars, stepVars, schedVars, gradVars, listing, latest >>

\* lines 554-558
SelectLatest ==
  /\ dpc = "select"
  /\ IF Cardinality(found) = 0
       THEN UNCHANGED latest
       ELSE latest' = SortedLast(found)
  /\ dpc' = "selected"
  /\ UNCHANGED << mainVars, maskVars, stepVars, schedVars, gradVars, listing, found >>

NextDiscover ==
  \/ GlobCheckpoints
  \/ SelectLatest

SpecDiscover == InitDiscover /\ [][NextDiscover]_vars

(***************************************************************************)
(* Properties of the checkpoint discovery.                                 *)
(***************************************************************************)

\* C19: for every non-empty set of files checkpoint_<k>.pt in the save
\* directory, the path selected for resume is the one of the largest k, the
\* suffixes compared as integers.
C19_SelectsMaxSuffix ==
  (dpc = "selected" /\ listing # {})
  => \E k \in listing :
       /\ \A j \in listing : j <= k
       /\ latest = CheckpointPath(k)

C19_Witness ==
  /\ dpc = "selected"
  /\ {9, 10} \subseteq listing
  /\ \A j \in listing : j <= 10
  /\ latest = CheckpointPath(10)

(***************************************************************************)
(* The gradient of the embedding table in one training step,               *)
(* train_one_epoch lines 123-155: the backward passes leave a gradient,    *)
(* mask_embedding restricts it, optimizer.step() uses it.                  *)
(***************************************************************************)
MaxGrad == 1     \* largest enumerated entry of a gradient row

\* The token rows of the embedding table: padding stands for every token
\* that is not a marker.
EmbedRows == PadId .. AnswerId

Grads == [EmbedRows -> 0 .. MaxGrad]

\* lang_encoder classes: the three the code names, and any other
Families == {"MPTForCausalLM", "MosaicGPT", "LlamaForCausalLM", "RWForCausalLM"}

InitGrad ==
  /\ MainParked
  /\ MaskIdle
  /\ StepIdle
  /\ SchedIdle
  /\ DiscoverIdle
  /\ mask_lm_head \in BOOLEAN
  /\ lang_encoder \in Families
  /\ wte \in [requires_grad : BOOLEAN, grad : {<< >>}]
  /\ lm_head \in [requires_grad : BOOLEAN, grad : {<< >>}]
  /\ lang_encoder # "LlamaForCausalLM" => lm_head = NoGrad
  /\ backward_wte = NoGrad
  /\ applied = << >>
  /\ gpc = "backward"

\* What the backward passes can leave in weight.grad of module m.
AfterBackward(m) ==
  IF m.requires_grad THEN { [m EXCEPT !.grad = g] : g \in Grads } ELSE {m}

\* lines 123-128: the backward passes of the step accumulate a gradient in
\* every weight that requires one
GradBackward ==
  /\ gpc = "backward"
  /\ wte' \in AfterBackward(wte)
  /\ lm_head' \in AfterBackward(lm_head)
  /\ backward_wte' = wte'
  /\ gpc' = "mask"
  /\ UNCHANGED << mainVars, maskVars, stepVars, schedVars, discoverVars,
                  mask_lm_head, lang_encoder, applied >>

\* mask_embedding with line 138 in force: the <image> row is kept too.
MaskEmbeddingKeepMedia(m) ==
  IF m.requires_grad
    THEN [m EXCEPT !.grad = [r \in EmbedRows |->
                               m.grad[r] * (IF r \in {AnswerId, MediaId} THEN 1 ELSE 0)]]
    ELSE m

\* lines 134-140, mask_embedding(m): the gradient is multiplied by a mask
\* that is one on the row of answer_token_id and zero elsewhere
mask_embedding(m) ==
  IF m.requires_grad
    THEN LET zero_mask == [r \in EmbedRows |-> IF r = AnswerId THEN 1 ELSE 0]
         IN  [m EXCEPT !.grad = [r \in EmbedRows |-> m.grad[r] * zero_mask[r]]]
    ELSE m

\* lines 142-148
MaskLmHead ==
  /\ gpc = "mask"
  /\ IF mask_lm_head /\ lang_encoder \in {"MPTForCausalLM", "MosaicGPT"}
       THEN /\ wte' = mask_embedding(wte)
            /\ UNCHANGED lm_head
       ELSE IF mask_lm_head /\ lang_encoder = "LlamaForCausalLM"
       THEN /\ wte' = mask_embedding(wte)
            /\ lm_head' = mask_embedding(lm_head)
       ELSE UNCHANGED << wte, lm_head >>
  /\ gpc' = "step"
  /\ UNCHANGED << mainVars, maskVars, stepVars, schedVars, discoverVars,
                  mask_lm_head, lang_encoder, backward_wte, applied >>

\* line 153: optimizer.step() reads the gradient
GradOptimizerStep ==
  /\ gpc = "step"
  /\ applied' = wte.grad
  /\ gpc' = "done"
  /\ UNCHANGED << mainVars, maskVars, stepVars, schedVars, discoverVars,
                  mask_lm_head, lang_encoder, wte, lm_head, backward_wte >>

NextGrad ==
  \/ GradBackward
  \/ MaskLmHead
  \/ GradOptimizerStep

SpecGrad == InitGrad /\ [][NextGrad]_vars

(***************************************************************************)
(* Properties of the embedding gradient.                                   *)
(***************************************************************************)

Supported == lang_encoder \in {"MPTForCausalLM", "MosaicGPT", "LlamaForCausalLM"}

TypeOK ==
  /\ args \in Args
  /\ run \in 1 .. MaxRuns
  /\ dirExists \in BOOLEAN
  /\ \A e \in Epochs : files[e].kind \in {"none", "torn", "ckpt"}
  /\ \A w \in Workers : pc[w] \in {"parse_args", "load_model", "wait_510", "resume",
                                    "setup", "epoch_loop", "train", "wait_623", "save",
                                    "prune", "wait_644", "wait_646", "final_save",
                                    "done", "error"}
====
